---- MODULE Spec2Model ----
(***************************************************************************)
(* Recognition matching, per-identity cooldown and live-activity fan-out   *)
(* of the prison face-verification backend (app/routes/recognize.py,       *)
(* app/routes/activity.py, app/utils/face_tools.py).                       *)
(*                                                                         *)
(* Numbers.  Embedding components are integers in units of 0.1.  The code  *)
(* computes in floating point; the model computes with exact real-number   *)
(* semantics and never takes a square root:                                *)
(*   - a cosine score is the pair (num, den2) standing for num/sqrt(den2); *)
(*   - a Euclidean distance is kept as its square d2 in units of 0.01, so  *)
(*     dist = sqrt(d2)/10;                                                 *)
(*   - distance_to_score(dist) is the pair kind "dts", num = d2, standing  *)
(*     for 1/(1 + sqrt(d2)/10).                                            *)
(* Comparisons are done by cross-multiplying squares.                      *)
(***************************************************************************)
EXTENDS Integers, Sequences, FiniteSets, TLC

VARIABLES gallery, last_recognized, logs, connections, active_connections, ws, inbox,
          calls, probe

vars == <<gallery, last_recognized, logs, connections, active_connections, ws, inbox,
          calls, probe>>

----------------------------------------------------------------------------
(* Bounds of the model *)

MaxCalls == 2
MaxObservers == 3
MaxWindows == 2
MaxCoord == 2
MaxIdentities == 3
MaxStatsObservers == 2

Requests == 1..MaxCalls
Observers == 1..MaxObservers

\* The sockets that connect to the stats router's websocket route, numbered
\* after those of the activity route
StatsObservers == (MaxObservers + 1)..(MaxObservers + MaxStatsObservers)
Sockets == Observers \cup StatsObservers

----------------------------------------------------------------------------
(* Program constants *)

\* COSINE_THRESHOLD = 0.85, in hundredths
COSINE_THRESHOLD == 85
\* EUCLIDEAN_THRESHOLD = 0.6, in tenths
EUCLIDEAN_THRESHOLD == 6
\* RECOGNITION_COOLDOWN = 30 seconds
RECOGNITION_COOLDOWN == 30

\* Readings of time.time(), in seconds: the start of each cooldown window and
\* the second after it, so that gaps of 1, 29, 30, 31, 59, 60 and 61 s all
\* occur.  time.time() is the wall clock: a call may read any of them,
\* whatever earlier calls read.
Times == {w * RECOGNITION_COOLDOWN + r : w \in 0..MaxWindows, r \in {0, 1}}

\* None, for an inmate_id, a name or a method
None == "None"
\* float("inf")
Inf == -1

----------------------------------------------------------------------------
(* Similarity metrics: app/utils/face_tools.py *)

RECURSIVE DotFrom(_, _, _)
DotFrom(a, b, i) ==
    IF i > Len(a) THEN 0 ELSE a[i] * b[i] + DotFrom(a, b, i + 1)

Dot(a, b) == DotFrom(a, b, 1)

Norm2(a) == Dot(a, a)

Diff(a, b) == [i \in 1..Len(a) |-> a[i] - b[i]]

CosScore(n, d) == [kind |-> "cos", num |-> n, den2 |-> d]

\* 0.0
ZeroScore == CosScore(0, 1)

\* np.dot raises on vectors of different lengths, and so does the array
\* subtraction unless one of them has a single element
RaisedScore == [kind |-> "raised", num |-> 0, den2 |-> 1]
RaisedDist == -2

\* Mutant: the dot product is not divided by the norms
cosine_similarity_raw(a, b) ==
    IF Norm2(a) = 0 \/ Norm2(b) = 0 THEN ZeroScore
    ELSE IF Len(a) # Len(b) THEN RaisedScore
    ELSE CosScore(Dot(a, b), 100 * 100)

cosine_similarity(a, b) ==
    IF Norm2(a) = 0 \/ Norm2(b) = 0 THEN ZeroScore
    ELSE IF Len(a) # Len(b) THEN RaisedScore
    ELSE CosScore(Dot(a, b), Norm2(a) * Norm2(b))

\* a_arr - b_arr: numpy stretches a one-element array to the other's length
Stretch(a, n) == IF Len(a) = 1 THEN [i \in 1..n |-> a[1]] ELSE a

euclidean_distance(a, b) ==
    IF Len(a) # Len(b) /\ Len(a) # 1 /\ Len(b) # 1 THEN RaisedDist
    ELSE LET n == IF Len(a) > Len(b) THEN Len(a) ELSE Len(b)
         IN Norm2(Diff(Stretch(a, n), Stretch(b, n)))

distance_to_score(d2) == [kind |-> "dts", num |-> d2, den2 |-> 100]

\* x > y for cosine scores x = num/sqrt(den2)
ScoreGT(x, y) ==
    IF x.num >= 0 /\ y.num >= 0
      THEN x.num * x.num * y.den2 > y.num * y.num * x.den2
    ELSE IF x.num >= 0 THEN TRUE
    ELSE IF y.num >= 0 THEN FALSE
    ELSE x.num * x.num * y.den2 < y.num * y.num * x.den2

\* Mutant: the cosine threshold is exclusive
ScoreAbove(x, hundredths) == ScoreGT(x, CosScore(hundredths, 10000))

\* score >= cos_threshold, the threshold given in hundredths
ScoreAtLeast(x, hundredths) == ~ScoreGT(CosScore(hundredths, 10000), x)

\* Mutant: a candidate at the same distance replaces the one found before
DistLE(a, b) == a # Inf /\ (b = Inf \/ a <= b)

\* a < b for distances, Inf the largest
DistLT(a, b) == a # Inf /\ (b = Inf \/ a < b)

\* dist <= euc_threshold, the threshold given in tenths
DistAtMost(d2, tenths) == d2 # Inf /\ d2 <= tenths * tenths

----------------------------------------------------------------------------
(* Match decision policy: face_tools.choose_match *)

\* The absent document (None where a gallery document is expected)
NoDoc == [inmate_id |-> None, name |-> None, embeddings |-> <<>>]

\* Mutant: the diagnostic score of a rejection prefers the distance
choose_match_distance_first(best_cos, best_euc, cos_threshold, euc_threshold) ==
    IF best_cos.inmate # NoDoc /\ ScoreAtLeast(best_cos.score, cos_threshold)
      THEN [chosen |-> best_cos.inmate, method |-> "cosine",
            score |-> best_cos.score]
    ELSE IF best_euc.inmate # NoDoc /\ DistAtMost(best_euc.dist, euc_threshold)
      THEN [chosen |-> best_euc.inmate, method |-> "euclidean",
            score |-> distance_to_score(best_euc.dist)]
    ELSE [chosen |-> NoDoc, method |-> "none",
          score |-> IF best_euc.dist # Inf
                      THEN distance_to_score(best_euc.dist)
                    ELSE IF ScoreGT(best_cos.score, ZeroScore)
                      THEN best_cos.score
                    ELSE ZeroScore]

choose_match(best_cos, best_euc, cos_threshold, euc_threshold) ==
    IF best_cos.inmate # NoDoc /\ ScoreAtLeast(best_cos.score, cos_threshold)
      THEN [chosen |-> best_cos.inmate, method |-> "cosine",
            score |-> best_cos.score]
    ELSE IF best_euc.inmate # NoDoc /\ DistAtMost(best_euc.dist, euc_threshold)
      THEN [chosen |-> best_euc.inmate, method |-> "euclidean",
            score |-> distance_to_score(best_euc.dist)]
    ELSE [chosen |-> NoDoc, method |-> "none",
          score |-> IF ScoreGT(best_cos.score, ZeroScore)
                      THEN best_cos.score
                    ELSE IF best_euc.dist # Inf
                      THEN distance_to_score(best_euc.dist)
                    ELSE ZeroScore]

----------------------------------------------------------------------------
(* Gallery scan: recognize_face, the loop over inmates_col.find({}) *)

\* Mutant: the best-so-far of an earlier call is not reset
StaleBest ==
    LET earlier == [inmate_id |-> "A", name |-> "Ann", embeddings |-> << <<10, 0>> >>]
    IN [cos |-> [score |-> CosScore(100, 10000), inmate |-> earlier],
        euc |-> [dist |-> 0, inmate |-> earlier]]

\* best_cos = {"score": 0.0, "inmate": None}; best_euc = {"dist": inf, ...}
InitialBest == [cos |-> [score |-> ZeroScore, inmate |-> NoDoc],
                euc |-> [dist |-> Inf, inmate |-> NoDoc]]

\* One embedding of one document against the query
CompareEmbedding(query_vec, doc, stored_vec, best) ==
    IF stored_vec = <<>> THEN best
    ELSE
      LET cos_score == cosine_similarity(query_vec, stored_vec)
          dist == euclidean_distance(query_vec, stored_vec)
          newCos == IF cos_score # RaisedScore /\ ScoreGT(cos_score, best.cos.score)
                      THEN [score |-> cos_score, inmate |-> doc]
                      ELSE best.cos
          newEuc == IF dist # RaisedDist /\ DistLT(dist, best.euc.dist)
                      THEN [dist |-> dist, inmate |-> doc]
                      ELSE best.euc
      IN [cos |-> newCos, euc |-> newEuc]

RECURSIVE ScanEmbeddings(_, _, _, _)
ScanEmbeddings(query_vec, doc, i, best) ==
    IF i > Len(doc.embeddings) THEN best
    ELSE ScanEmbeddings(query_vec, doc, i + 1,
             CompareEmbedding(query_vec, doc, doc.embeddings[i], best))

RECURSIVE ScanGallery(_, _, _, _)
ScanGallery(query_vec, docs, i, best) ==
    IF i > Len(docs) THEN best
    ELSE ScanGallery(query_vec, docs, i + 1,
             ScanEmbeddings(query_vec, docs[i], 1, best))

Decide(query_vec, docs) ==
    LET best == ScanGallery(query_vec, docs, 1, InitialBest)
    IN choose_match(best.cos, best.euc, COSINE_THRESHOLD, EUCLIDEAN_THRESHOLD)

----------------------------------------------------------------------------
(* Inputs *)

\* Documents the enrolment form can create (create_inmate)
DocA == [inmate_id |-> "A", name |-> "Ann", embeddings |-> << <<10, 0>>, <<3, 0>> >>]
DocB == [inmate_id |-> "B", name |-> "Bob", embeddings |-> << <<6, 8>> >>]
Enrollable == {DocA, DocB}

\* Uploaded images, each standing for the embedding get_embedding returns for
\* it; NoFace is an image in which mtcnn detects no face.
NoFace == <<>>
Queries == { <<10, 0>>, <<6, 8>>, <<0, 3>>, <<0, -10>> }
Images == Queries \cup {NoFace}

----------------------------------------------------------------------------
(* Cooldown tracker: recognize_face, lines 146-152 *)

\* Mutant: one time for everybody, the latest stored for any identity
LastSeenAnyone(lr, inmate_id) ==
    IF DOMAIN lr = {} THEN 0
    ELSE CHOOSE t \in {lr[k] : k \in DOMAIN lr} : \A k \in DOMAIN lr : lr[k] <= t

\* last_recognized.get(inmate_id, 0)
LastSeen(lr, inmate_id) == IF inmate_id \in DOMAIN lr THEN lr[inmate_id] ELSE 0

\* Mutants of the comparison: a strict one, and one without the window
CooldownElapsedStrict(now, last_seen) == now - last_seen > RECOGNITION_COOLDOWN
CooldownElapsedNoWindow(now, last_seen) == now - last_seen >= 0

\* Mutant: the gap is taken without its sign
CooldownElapsedEitherWay(now, last_seen) ==
    now - last_seen >= RECOGNITION_COOLDOWN \/ last_seen - now >= RECOGNITION_COOLDOWN

\* now - last_seen >= RECOGNITION_COOLDOWN
CooldownElapsed(now, last_seen) == now - last_seen >= RECOGNITION_COOLDOWN

\* Mutant: the write is lost
RecordNothing(lr, inmate_id, now) == lr

\* last_recognized[inmate_id] = now
RecordRecognition(lr, inmate_id, now) ==
    [k \in DOMAIN lr \cup {inmate_id} |-> IF k = inmate_id THEN now ELSE lr[k]]

----------------------------------------------------------------------------
(* Records *)

\* log_doc; req stands for the fields that tell one record from another
\* (image, recognized_by, recognized_at); now is the time.time() reading the
\* record was accepted at, kept for the cooldown properties.
LogDoc(req, doc, score, now) ==
    [req |-> req, inmate_id |-> doc.inmate_id, inmate_name |-> doc.name,
     score |-> score, now |-> now]

\* Mutant: the event carries no score of its own
PayloadWithoutScore(req, doc, score, method) ==
    [req |-> req, inmate_id |-> doc.inmate_id, inmate_name |-> doc.name,
     score |-> ZeroScore, method |-> method]

\* payload of the broadcast event
Payload(req, doc, score, method) ==
    [req |-> req, inmate_id |-> doc.inmate_id, inmate_name |-> doc.name,
     score |-> score, method |-> method]

\* JSONResponse of recognize_face, lines 210-218, with its status code;
\* status 0 while the call has not returned.  The keys left out are functions
\* of the chosen document (prison_name) and of the upload (boxes,
\* image_base64).
Response(status, doc, score, method) ==
    [status |-> status, inmate_id |-> doc.inmate_id, name |-> doc.name,
     score |-> score, method |-> method]

NoResponse == Response(0, NoDoc, ZeroScore, "none")
ErrorResponse(status) == Response(status, NoDoc, ZeroScore, "none")

IdleCall == [pc |-> "idle", image |-> NoFace, chosen |-> NoDoc, method |-> "none",
             score |-> ZeroScore, now |-> 0, passed |-> FALSE,
             snapshot |-> <<>>, idx |-> 0, response |-> NoResponse]

----------------------------------------------------------------------------
(* Broadcast hub: app/routes/activity.py *)

RECURSIVE RemoveFirst(_, _)
RemoveFirst(s, x) ==
    IF s = <<>> THEN <<>>
    ELSE IF Head(s) = x THEN Tail(s)
    ELSE <<Head(s)>> \o RemoveFirst(Tail(s), x)

InSeq(s, x) == \E i \in 1..Len(s) : s[i] = x

\* Mutant: the failed connection is kept
KeepConnection(conns, conn) == conns

\* Mutant: an absent connection is looked up as position -1, the last one
RemoveOrDropLast(conns, conn) ==
    IF InSeq(conns, conn) THEN RemoveFirst(conns, conn)
    ELSE IF conns = <<>> THEN conns
    ELSE SubSeq(conns, 1, Len(conns) - 1)

\* Mutant: the oldest connection is dropped, whichever send failed
RemoveOldest(conns, conn) == IF conns = <<>> THEN conns ELSE Tail(conns)

\* try: _connections.remove(conn)  except Exception: pass
RemoveConnection(conns, conn) == RemoveFirst(conns, conn)

\* The clean-up of websocket_activity's except branches:
\* if ws in _connections: _connections.remove(ws)
HandlerCleanup(conns, conn) == IF InSeq(conns, conn) THEN RemoveFirst(conns, conn) ELSE conns

\* Mutant: the copy misses the newest connection
SnapshotButNewest(conns) ==
    IF conns = <<>> THEN conns ELSE SubSeq(conns, 1, Len(conns) - 1)

\* Mutant: the sockets of the stats route are sent to as well
SnapshotBothRegistries(conns) == conns \o active_connections

\* list(_connections)
Snapshot(conns) == conns

----------------------------------------------------------------------------
(* State *)

TypeOK ==
    /\ \A i \in 1..Len(gallery) : gallery[i] \in Enrollable
    /\ DOMAIN last_recognized \subseteq {d.inmate_id : d \in Enrollable}
    /\ \A k \in DOMAIN last_recognized : last_recognized[k] \in Times
    /\ \A i \in 1..Len(connections) : connections[i] \in Observers
    /\ \A i \in 1..Len(active_connections) : active_connections[i] \in StatsObservers
    /\ ws \in [Sockets -> {"new", "open", "closed"}]
    /\ DOMAIN inbox = Sockets
    /\ DOMAIN calls = Requests
    /\ \A c \in Requests : calls[c].pc \in {"idle", "sending", "done"}
    /\ probe.phase \in {"off", "query", "scanned", "decided"}

----------------------------------------------------------------------------
(* Gallery store: app/routes/inmates.py *)

HasInmate(docs, inmate_id) == \E i \in 1..Len(docs) : docs[i].inmate_id = inmate_id

create_inmate(doc) ==
    /\ ~HasInmate(gallery, doc.inmate_id)
    /\ gallery' = Append(gallery, doc)
    /\ UNCHANGED <<last_recognized, logs, connections, ws, inbox, calls, probe, active_connections>>

delete_inmate(inmate_id) ==
    /\ HasInmate(gallery, inmate_id)
    /\ gallery' = SelectSeq(gallery, LAMBDA d : d.inmate_id # inmate_id)
    /\ UNCHANGED <<last_recognized, logs, connections, ws, inbox, calls, probe, active_connections>>

----------------------------------------------------------------------------
(* Live observers: activity.websocket_activity *)

\* await ws.accept(); _connections.append(ws).  Observers are numbered in
\* the order they connect.
Connect(o) ==
    /\ ws[o] = "new"
    /\ IF o = 1 THEN TRUE ELSE ws[o - 1] # "new"
    /\ ws' = [ws EXCEPT ![o] = "open"]
    /\ connections' = Append(connections, o)
    /\ UNCHANGED <<gallery, last_recognized, logs, inbox, calls, probe, active_connections>>

\* The client goes away.  The handler only sleeps, so nothing in it raises:
\* the socket stays in _connections until a send to it fails.
Disconnect(o) ==
    /\ ws[o] = "open"
    /\ ws' = [ws EXCEPT ![o] = "closed"]
    /\ UNCHANGED <<gallery, last_recognized, logs, connections, inbox, calls, probe, active_connections>>

----------------------------------------------------------------------------
(* The stats router's websocket: stats.websocket_activity.  The module's    *)
(* own broadcast_activity is called from nowhere, so it never runs.         *)

\* await websocket.accept(); active_connections.append(websocket).  The
\* sockets of this route are numbered in the order they connect.
StatsConnect(o) ==
    /\ ws[o] = "new"
    /\ \A p \in StatsObservers : p < o => ws[p] # "new"
    /\ ws' = [ws EXCEPT ![o] = "open"]
    /\ active_connections' = Append(active_connections, o)
    /\ UNCHANGED <<gallery, last_recognized, logs, connections, inbox, calls, probe>>

\* The client goes away while the handler waits in receive_text()
StatsDisconnect(o) ==
    /\ ws[o] = "open"
    /\ ws' = [ws EXCEPT ![o] = "closed"]
    /\ UNCHANGED <<gallery, last_recognized, logs, connections, active_connections,
                   inbox, calls, probe>>

\* receive_text() raises WebSocketDisconnect in the handler:
\* if websocket in active_connections: active_connections.remove(websocket)
StatsReceiveRaises(o) ==
    /\ ws[o] = "closed"
    /\ InSeq(active_connections, o)
    /\ active_connections' = RemoveFirst(active_connections, o)
    /\ UNCHANGED <<gallery, last_recognized, logs, connections, ws, inbox, calls, probe>>

----------------------------------------------------------------------------
(* Recognition orchestrator: recognize.recognize_face *)

\* The call returns `response` (or raises the HTTPException it stands for).
\* The record of a returned call keeps what the call did.
Return(c, call, response) ==
    calls' = [calls EXCEPT ![c] = [call EXCEPT !.pc = "done", !.response = response]]

\* Mutant: a match held back by the cooldown is answered as no match
ReturnHidesSuppressed(c, call) ==
    Return(c, call, IF call.chosen # NoDoc /\ ~call.passed
                      THEN Response(200, NoDoc, ZeroScore, "none")
                      ELSE Response(200, call.chosen, call.score, call.method))

\* return JSONResponse({...}), lines 210-218
ReturnResult(c, call) ==
    Return(c, call, Response(200, call.chosen, call.score, call.method))

\* Entering broadcast_activity: the snapshot is taken and the first send is
\* awaited; with nobody connected the loop body never runs and the call goes
\* on to its response.
EnterBroadcast(c, call) ==
    LET snap == Snapshot(connections)
    IN IF snap = <<>>
         THEN ReturnResult(c, call)
         ELSE calls' = [calls EXCEPT ![c] =
                          [call EXCEPT !.pc = "sending", !.snapshot = snap, !.idx = 1]]

\* Mutant: the test of chosen_doc is missing
AcceptedAlways(d) == TRUE

\* if chosen_doc:
Accepted(d) == d.chosen # NoDoc

\* Mutant: the failed insert is swallowed and the call goes on to broadcast
InsertFailureIgnored(c, call) == EnterBroadcast(c, call)

\* logs_col.insert_one raises: `except Exception` at line 222 turns it into
\* HTTPException(500); nothing after the insert runs.
InsertFailed(c, call) == Return(c, call, ErrorResponse(500))

\* The request arrives and its body is read (`await image.read()`, the only
\* suspension before the broadcast, ahead of every access to shared state);
\* then lines 84-177 run without suspending: detection, embedding, the
\* gallery scan, the decision, the cooldown check and record, the log insert
\* and the entry into broadcast_activity up to its first await.  `times` are
\* the readings time.time() may give, and insert_one may raise.  Requests are
\* numbered in the order they get here.
Recognize(c, image, times) ==
    /\ calls[c].pc = "idle"
    /\ IF c = 1 THEN TRUE ELSE calls[c - 1].pc # "idle"
    /\ IF image = NoFace
         THEN /\ Return(c, calls[c], ErrorResponse(400))
              /\ UNCHANGED <<last_recognized, logs>>
         ELSE \E d \in {Decide(image, gallery)} :
              \E call \in {[calls[c] EXCEPT !.image = image, !.chosen = d.chosen,
                                            !.method = d.method, !.score = d.score]} :
                IF ~Accepted(d)
                  THEN /\ ReturnResult(c, call)
                       /\ UNCHANGED <<last_recognized, logs>>
                  ELSE \E now \in times :
                    IF ~CooldownElapsed(now, LastSeen(last_recognized, d.chosen.inmate_id))
                      THEN /\ ReturnResult(c, [call EXCEPT !.now = now])
                           /\ UNCHANGED <<last_recognized, logs>>
                      ELSE /\ last_recognized' =
                                RecordRecognition(last_recognized, d.chosen.inmate_id, now)
                           /\ \E insert_ok \in BOOLEAN :
                                IF insert_ok
                                  THEN /\ logs' = Append(logs, LogDoc(c, d.chosen, d.score, now))
                                       /\ EnterBroadcast(c, [call EXCEPT !.now = now,
                                                                         !.passed = TRUE])
                                  ELSE /\ logs' = logs
                                       /\ InsertFailed(c, [call EXCEPT !.now = now,
                                                                       !.passed = TRUE])
    /\ UNCHANGED <<gallery, connections, ws, inbox, probe, active_connections>>

\* Mutant: a raising send is not caught and ends the call with an error
AfterSendRaises(c, call, raised) ==
    IF raised
      THEN Return(c, [call EXCEPT !.idx = call.idx + 1], ErrorResponse(500))
    ELSE IF call.idx < Len(call.snapshot)
      THEN calls' = [calls EXCEPT ![c].idx = call.idx + 1]
      ELSE ReturnResult(c, [call EXCEPT !.idx = call.idx + 1])

\* After a send has ended, raised or not (a raise is caught at line 38): the
\* loop goes to the next connection of the snapshot, or broadcast_activity
\* returns and the call builds its response.
AfterSend(c, call, raised) ==
    IF call.idx < Len(call.snapshot)
      THEN calls' = [calls EXCEPT ![c].idx = call.idx + 1]
      ELSE ReturnResult(c, [call EXCEPT !.idx = call.idx + 1])

\* `await conn.send_json(payload)` ends for the connection the loop is at:
\* the event reaches an open socket; a send on a closed one raises and the
\* connection is removed.
SendReturns(c) ==
    /\ calls[c].pc = "sending"
    /\ LET call == calls[c]
           conn == call.snapshot[call.idx]
       IN IF ws[conn] = "open"
            THEN /\ inbox' = [inbox EXCEPT ![conn] =
                                Append(@, Payload(c, call.chosen, call.score, call.method))]
                 /\ connections' = connections
                 /\ AfterSend(c, call, FALSE)
            ELSE /\ connections' = RemoveConnection(connections, conn)
                 /\ inbox' = inbox
                 /\ AfterSend(c, call, TRUE)
    /\ UNCHANGED <<gallery, last_recognized, logs, ws, probe, active_connections>>

----------------------------------------------------------------------------

\* The steps of recognize_face over given requests, uploaded images and
\* clock readings
CallStep(reqs, images, times) ==
    \/ \E c \in reqs, image \in images : Recognize(c, image, times)
    \/ \E c \in reqs : SendReturns(c)

\* The steps of the live observers
ObserverStep(obs) ==
    \/ \E o \in obs : Connect(o)
    \/ \E o \in obs : Disconnect(o)

\* The steps of the observers of the stats route
StatsObserverStep(obs) ==
    \/ \E o \in obs : StatsConnect(o)
    \/ \E o \in obs : StatsDisconnect(o)
    \/ \E o \in obs : StatsReceiveRaises(o)

\* The steps of the enrolment routes
GalleryStep(docs) ==
    \/ \E doc \in docs : create_inmate(doc)
    \/ \E doc \in docs : delete_inmate(doc.inmate_id)

----------------------------------------------------------------------------
(* The matching functions on their own: the scan of recognize_face (lines   *)
(* 99-126) and face_tools.choose_match (lines 128-132), applied to drawn    *)
(* arguments held in `probe`.                                               *)

NoDecision == [chosen |-> NoDoc, method |-> "none", score |-> ZeroScore]

NoProbe == [phase |-> "off", query |-> <<>>, docs |-> <<>>,
            best_cos |-> InitialBest.cos, best_euc |-> InitialBest.euc,
            result |-> NoDecision]

\* for doc in inmates_col.find({}): ... over the probe's gallery
RunScan ==
    /\ probe.phase = "query"
    /\ \E best \in {ScanGallery(probe.query, probe.docs, 1, InitialBest)} :
          probe' = [probe EXCEPT !.phase = "scanned",
                                 !.best_cos = best.cos, !.best_euc = best.euc]
    /\ UNCHANGED <<gallery, last_recognized, logs, connections, ws, inbox, calls,
                   active_connections>>

\* chosen_doc, method, reported_score = choose_match(best_cos, best_euc, ...)
RunChooseMatch ==
    /\ probe.phase = "scanned"
    /\ probe' = [probe EXCEPT !.phase = "decided",
                              !.result = choose_match(probe.best_cos, probe.best_euc,
                                                      COSINE_THRESHOLD, EUCLIDEAN_THRESHOLD)]
    /\ UNCHANGED <<gallery, last_recognized, logs, connections, ws, inbox, calls,
                   active_connections>>

----------------------------------------------------------------------------
(* Spec: every kind of upload and every clock reading against an enrolled   *)
(* gallery, with one live observer.                                         *)

\* The process after start-up: module-level state of recognize.py,
\* activity.py and stats.py, an empty log collection, no request and no socket yet
Fresh ==
    /\ last_recognized = << >>
    /\ logs = <<>>
    /\ connections = <<>>
    /\ active_connections = <<>>
    /\ ws = [o \in Sockets |-> "new"]
    /\ inbox = [o \in Sockets |-> <<>>]
    /\ calls = [c \in Requests |-> IdleCall]

Init ==
    /\ gallery = <<DocA, DocB>>
    /\ Fresh
    /\ probe = NoProbe

Next == CallStep(Requests, Images, Times) \/ ObserverStep({1})

Spec == Init /\ [][Next]_vars

(* HubSpec: the fan-out to several observers.  The uploads are one image of *)
(* each enrolled identity, so that no call is held back by the cooldown.    *)

HubImages == { <<10, 0>>, <<6, 8>> }
HubTimes == {t \in Times : t = RECOGNITION_COOLDOWN}

HubNext == CallStep(Requests, HubImages, HubTimes) \/ ObserverStep(Observers)

HubSpec == Init /\ [][HubNext]_vars

(* GallerySpec: enrolment and removal run beside the recognitions, and the  *)
(* uploads include embeddings whose length is not that of the enrolled      *)
(* vectors.                                                                 *)

\* The length of the vectors get_embedding returns (512 in the code)
EmbeddingDim == 2

GalImages == { <<10, 0>>, <<6, 8>>, <<10, 0, 0>>, <<3>> }

GalNext ==
    \/ CallStep(Requests, GalImages, HubTimes)
    \/ ObserverStep({1})
    \/ GalleryStep(Enrollable)

GallerySpec == Init /\ [][GalNext]_vars

(* PolicySpec: choose_match on its own, over best-so-far candidates on both *)
(* sides of each threshold and with and without an identity.  Scores are    *)
(* hundredths (num/100); distances are squares in units of 0.01, so 36 is   *)
(* the distance 0.6.                                                        *)

PolicyScores == {CosScore(n, 10000) : n \in {-50, 0, 1, 84, 85, 86, 100}}
PolicyDists == {Inf, 0, 25, 35, 36, 37, 400}
PolicyDocs == {NoDoc, DocA, DocB}

PolicyInit ==
    /\ gallery = <<DocA, DocB>>
    /\ Fresh
    /\ probe \in {[NoProbe EXCEPT !.phase = "scanned",
                                   !.best_cos = [score |-> s, inmate |-> i],
                                   !.best_euc = [dist |-> d, inmate |-> j]] :
                     s \in PolicyScores, i \in PolicyDocs,
                     d \in PolicyDists, j \in PolicyDocs}

PolicyNext == RunChooseMatch

PolicySpec == PolicyInit /\ [][PolicyNext]_vars

(* ScanSpec: the scan and the decision on their own, for a gallery of one   *)
(* identity that holds the query vector among its embeddings.  The vectors  *)
(* are all those with components in steps of 0.3, the zero vector included. *)

Coords == {3 * k : k \in (0 - MaxCoord)..MaxCoord}
ScanVectors == {<<x, y>> : x, y \in Coords}

OneIdentity(embeddings) == [inmate_id |-> "A", name |-> "Ann", embeddings |-> embeddings]

\* The embeddings lists holding q: alone, or before or after another vector
EmbeddingsWith(q) ==
    {<<q>>} \cup {<<q, v>> : v \in ScanVectors} \cup {<<v, q>> : v \in ScanVectors}

ScanInit ==
    /\ gallery = <<DocA, DocB>>
    /\ Fresh
    /\ probe \in UNION {{[NoProbe EXCEPT !.phase = "query", !.query = q,
                                          !.docs = <<OneIdentity(e)>>] :
                             e \in EmbeddingsWith(q)} : q \in ScanVectors}

ScanNext == RunScan \/ RunChooseMatch

ScanSpec == ScanInit /\ [][ScanNext]_vars

(* BestSpec: the scan and the decision on their own, for galleries of       *)
(* several identities: equal and collinear vectors (ties), vectors on both  *)
(* sides of each threshold, empty vectors, and identities with one or two   *)
(* embeddings.                                                              *)

BestVectors == { <<10, 0>>, <<9, 4>>, <<8, 6>>, <<5, 0>>, <<-10, 0>>, <<>> }
BestQueries == { <<10, 0>>, <<8, 6>> }

BestEmbeddings ==
    {<<v>> : v \in BestVectors} \cup { << <<>>, <<10, 0>> >>, << <<8, 6>>, <<10, 0>> >> }

InmateIds == <<"A", "B", "C", "D", "E">>

\* The galleries of n identities, in scan order
RECURSIVE Galleries(_)
Galleries(n) ==
    IF n = 0 THEN {<<>>}
    ELSE {Append(g, [inmate_id |-> InmateIds[n], name |-> InmateIds[n], embeddings |-> e]) :
            g \in Galleries(n - 1), e \in BestEmbeddings}

BestInit ==
    /\ gallery = <<DocA, DocB>>
    /\ Fresh
    /\ probe \in {[NoProbe EXCEPT !.phase = "query", !.query = q, !.docs = g] :
                     q \in BestQueries, g \in UNION {Galleries(n) : n \in 1..MaxIdentities}}

BestSpec == BestInit /\ [][ScanNext]_vars

(* StatsSpec: accepted matches with observers on both websocket routes.     *)

StatsNext ==
    \/ CallStep(Requests, HubImages, HubTimes)
    \/ ObserverStep({1, 2})
    \/ StatsObserverStep(StatsObservers)

StatsSpec == Init /\ [][StatsNext]_vars

(* CooldownSpec: matches of the enrolled identities at every clock reading, *)
(* going forwards and backwards, while identities are removed and enrolled  *)
(* again.                                                                   *)

CooldownNext ==
    \/ CallStep(Requests, HubImages, Times)
    \/ ObserverStep({1})
    \/ GalleryStep(Enrollable)

CooldownSpec == Init /\ [][CooldownNext]_vars

(* LiveSpec: HubSpec under the scheduling the event loop gives.  A request  *)
(* that arrived is run; a send to a closed socket raises; a send to an open *)
(* socket ends when the peer takes the data, which observers 2.. always do  *)
(* and observer 1 need not: nothing in the code bounds the wait.            *)

SendReturnsTo(c, o) ==
    /\ calls[c].pc = "sending"
    /\ calls[c].snapshot[calls[c].idx] = o
    /\ SendReturns(c)

Fairness ==
    \A c \in Requests :
        /\ WF_vars(\E image \in HubImages : Recognize(c, image, HubTimes))
        /\ \A o \in Observers \ {1} : WF_vars(SendReturnsTo(c, o))
        /\ WF_vars(ws[1] = "closed" /\ SendReturnsTo(c, 1))

LiveSpec == Init /\ [][HubNext]_vars /\ Fairness

----------------------------------------------------------------------------
(* Properties *)

HasLog(c) == \E i \in 1..Len(logs) : logs[i].req = c
Received(o, c) == \E i \in 1..Len(inbox[o]) : inbox[o][i].req = c
Registered(o) == InSeq(connections, o)
Resolved(c) == calls[c].pc # "idle" /\ calls[c].chosen # NoDoc
SameIdentity(c1, c2) == calls[c1].chosen.inmate_id = calls[c2].chosen.inmate_id
Apart(t1, t2) == t1 - t2 >= RECOGNITION_COOLDOWN \/ t2 - t1 >= RECOGNITION_COOLDOWN

\* The step in which call c runs lines 84-177 and resolves to an identity
ResolvesIn(c) ==
    calls[c].pc = "idle" /\ calls'[c].pc # "idle" /\ calls'[c].chosen # NoDoc

\* C1: the cooldown check and record act as one atomic step: two calls that
\* resolve to the same inmate_id and read clock values less than 30 s apart
\* never both pass the check, whatever the interleaving; only a call that
\* passed inserts a log record, and only a call that logged broadcasts.
C1_CooldownAtomic ==
    /\ \A c1, c2 \in Requests :
          (c1 # c2 /\ calls[c1].passed /\ calls[c2].passed /\ SameIdentity(c1, c2))
             => Apart(calls[c1].now, calls[c2].now)
    /\ \A c \in Requests : HasLog(c) => calls[c].passed
    /\ \A c \in Requests, o \in Observers : Received(o, c) => HasLog(c)

\* A call is suppressed while another call for the same identity, accepted
\* less than 30 s away, is still suspended inside its broadcast.
C1_Witness ==
    \E c1, c2 \in Requests :
        /\ c1 # c2
        /\ calls[c1].pc = "sending" /\ calls[c1].passed
        /\ calls[c2].pc = "done" /\ Resolved(c2) /\ ~calls[c2].passed
        /\ SameIdentity(c1, c2)
        /\ ~Apart(calls[c1].now, calls[c2].now)

LogsSpaced ==
    \A i, j \in 1..Len(logs) :
        (i < j /\ logs[i].inmate_id = logs[j].inmate_id)
           => logs[j].now - logs[i].now >= RECOGNITION_COOLDOWN

EventsSpaced ==
    \A o \in Observers : \A i, j \in 1..Len(inbox[o]) :
        (i # j /\ inbox[o][i].inmate_id = inbox[o][j].inmate_id)
           => /\ inbox[o][i].req # inbox[o][j].req
              /\ Apart(calls[inbox[o][i].req].now, calls[inbox[o][j].req].now)

SuppressedKeepsWindow ==
    \A c \in Requests :
        (ResolvesIn(c) /\ ~calls'[c].passed)
           => last_recognized' = last_recognized /\ logs' = logs /\ inbox' = inbox

\* C2: any two log records, and any two events an observer got, for one
\* inmate_id were accepted at clock readings at least 30 s apart; a call
\* suppressed by the cooldown leaves last_recognized (and the log) unchanged,
\* so the window runs from the previous logged match.
C2_OncePerWindow ==
    /\ [](LogsSpaced /\ EventsSpaced)
    /\ [][SuppressedKeepsWindow]_vars

\* A logged match, then a later call for the same identity inside the window:
\* suppressed, one record, one event, and the entry still the first reading.
C2_Witness ==
    \E c1, c2 \in Requests :
        /\ c1 # c2 /\ HasLog(c1) /\ calls[c1].pc = "done"
        /\ calls[c2].pc = "done" /\ Resolved(c2) /\ ~calls[c2].passed
        /\ SameIdentity(c1, c2)
        /\ calls[c2].now > calls[c1].now
        /\ last_recognized[calls[c1].chosen.inmate_id] = calls[c1].now
        /\ Len(logs) = 1
        /\ Len(inbox[1]) = 1

\* C3: a policy-accepted match passes the cooldown check exactly when its
\* identity has no entry in last_recognized or now - entry >= 30; the first
\* match of an identity passes for every clock reading and creates the entry
\* with value now.
C3_FirstMatchAlwaysAccepted ==
    [][\A c \in Requests :
          ResolvesIn(c) =>
             LET id == calls'[c].chosen.inmate_id
                 now == calls'[c].now
             IN /\ calls'[c].passed <=>
                     (\/ id \notin DOMAIN last_recognized
                      \/ now - last_recognized[id] >= RECOGNITION_COOLDOWN)
                /\ id \notin DOMAIN last_recognized =>
                     (calls'[c].passed /\ last_recognized'[id] = now)]_vars

\* C4: a call that resolves to an identity whose recorded time is at least
\* 30 s (exactly 30 s included) before the call's clock reading passes the
\* check and, unless the insert raises, appends its log record.
C4_ExpiryLogsAgain ==
    [][\A c \in Requests :
          (/\ ResolvesIn(c)
           /\ calls'[c].chosen.inmate_id \in DOMAIN last_recognized
           /\ calls'[c].now - last_recognized[calls'[c].chosen.inmate_id]
                 >= RECOGNITION_COOLDOWN)
             => /\ calls'[c].passed
                /\ calls'[c].response.status # 500 =>
                     logs' = Append(logs, LogDoc(c, calls'[c].chosen, calls'[c].score,
                                                 calls'[c].now))]_vars

\* Two records of one identity, accepted exactly 30 s apart
C4_Witness ==
    \E i, j \in 1..Len(logs) :
        /\ i < j
        /\ logs[i].inmate_id = logs[j].inmate_id
        /\ logs[j].now - logs[i].now = RECOGNITION_COOLDOWN

\* C5: when a send of a broadcast has ended, its observer has the event or
\* is gone from _connections; the loop goes on after a failure, and the
\* broadcast returns normally to a call that answers 200.
C5_BroadcastIsolation ==
    \A c \in Requests :
        /\ \A i \in 1..(calls[c].idx - 1) :
              Received(calls[c].snapshot[i], c) \/ ~Registered(calls[c].snapshot[i])
        /\ (calls[c].pc = "done" /\ calls[c].snapshot # <<>>)
              => /\ calls[c].idx = Len(calls[c].snapshot) + 1
                 /\ calls[c].response.status = 200

\* Three observers in the snapshot, the send to the first or second raised
\* and the two others got the event.
C5_Witness ==
    \E c \in Requests :
        /\ calls[c].pc = "done" /\ Len(calls[c].snapshot) = 3
        /\ \E k \in 1..2 :
              /\ ~Received(calls[c].snapshot[k], c)
              /\ ~Registered(calls[c].snapshot[k])
              /\ \A i \in 1..3 : i # k =>
                    Received(calls[c].snapshot[i], c) /\ Registered(calls[c].snapshot[i])

\* C6: every call that reaches the broadcast step returns its response,
\* also when a send to one registered observer never ends.
C6_BroadcastNeverBlocks ==
    \A c \in Requests : (calls[c].pc = "sending") ~> (calls[c].pc = "done")

\* Broadcasts are called in the order of the log records (the insert and the
\* call of broadcast_activity are one step).
LogIndex(c) == CHOOSE k \in 1..Len(logs) : logs[k].req = c

\* C7: every observer receives the events it gets in the order the
\* broadcasts were called.
C7_PerObserverFIFO ==
    \A o \in Observers : \A i, j \in 1..Len(inbox[o]) :
        i < j => LogIndex(inbox[o][i].req) < LogIndex(inbox[o][j].req)

InsertFailedIn(c) ==
    calls[c].pc = "idle" /\ calls'[c].passed /\ calls'[c].response.status = 500

\* C8: when insert_one raises in a call that passed the cooldown check, the
\* call ends with an error, the time it wrote to last_recognized stays, and
\* the call broadcasts nothing: a call inside or past a broadcast has its log
\* record, and a passed call without one has answered 500 and reached nobody.
C8_LedgerFailure ==
    /\ [][\A c \in Requests :
            InsertFailedIn(c) =>
               /\ calls'[c].pc = "done"
               /\ last_recognized'[calls'[c].chosen.inmate_id] = calls'[c].now
               /\ logs' = logs /\ inbox' = inbox]_vars
    /\ [](\A c \in Requests :
            (calls[c].passed /\ ~HasLog(c))
               => /\ calls[c].pc = "done"
                  /\ calls[c].response.status = 500
                  /\ calls[c].snapshot = <<>>
                  /\ \A o \in Observers : ~Received(o, c)
                  /\ calls[c].chosen.inmate_id \in DOMAIN last_recognized
                  /\ last_recognized[calls[c].chosen.inmate_id] >= calls[c].now)

\* The insert failed with an observer connected: error, entry kept, no event
C8_Witness ==
    \E c \in Requests :
        /\ calls[c].pc = "done" /\ calls[c].passed /\ ~HasLog(c)
        /\ calls[c].response.status = 500
        /\ last_recognized[calls[c].chosen.inmate_id] = calls[c].now
        /\ Registered(1) /\ ws[1] = "open" /\ inbox[1] = <<>>

\* C9: a call that logged a match answers 200 with the identity, name and
\* score of its log record and the method of its event, whatever became of
\* the sends.
C9_DeliveryFailuresContained ==
    \A c \in Requests :
        (calls[c].pc = "done" /\ HasLog(c))
           => /\ calls[c].response.status = 200
              /\ calls[c].response.inmate_id = logs[LogIndex(c)].inmate_id
              /\ calls[c].response.name = logs[LogIndex(c)].inmate_name
              /\ calls[c].response.score = logs[LogIndex(c)].score
              /\ calls[c].response.method \in {"cosine", "euclidean"}
              /\ \A o \in Observers : \A i \in 1..Len(inbox[o]) :
                    inbox[o][i].req = c =>
                       /\ inbox[o][i].method = calls[c].response.method
                       /\ inbox[o][i].score = calls[c].response.score
                       /\ inbox[o][i].inmate_id = calls[c].response.inmate_id

\* Every send of one call's broadcast failed, and one call's sends all
\* succeeded
C9_Witness ==
    /\ \E c \in Requests :
          /\ calls[c].pc = "done" /\ HasLog(c) /\ Len(calls[c].snapshot) >= 2
          /\ \A o \in Observers : ~Received(o, c)
    /\ \E c \in Requests :
          /\ calls[c].pc = "done" /\ HasLog(c) /\ Len(calls[c].snapshot) >= 2
          /\ \A i \in 1..Len(calls[c].snapshot) : Received(calls[c].snapshot[i], c)

\* The step in which call c runs lines 84-177 and the decision is a rejection
RejectedIn(c) ==
    /\ calls[c].pc = "idle" /\ calls'[c].pc # "idle"
    /\ calls'[c].chosen = NoDoc /\ calls'[c].response.status # 400

\* C10: a call whose decision is a rejection leaves last_recognized, the log
\* collection and the registry unchanged and sends no event, in its step and
\* ever after.
C10_RejectionTouchesNothing ==
    /\ [][\A c \in Requests :
            RejectedIn(c) =>
               /\ calls'[c].pc = "done" /\ calls'[c].method = "none"
               /\ UNCHANGED <<last_recognized, logs, connections, inbox>>]_vars
    /\ [](\A c \in Requests :
            (calls[c].pc # "idle" /\ calls[c].chosen = NoDoc)
               => ~HasLog(c) /\ \A o \in Observers : ~Received(o, c))

\* A rejected call (with its diagnostic score) beside a connected observer
C10_Witness ==
    \E c \in Requests :
        /\ calls[c].pc = "done" /\ calls[c].chosen = NoDoc
        /\ calls[c].response.status = 200 /\ calls[c].response.method = "none"
        /\ calls[c].response.score # ZeroScore
        /\ Registered(1) /\ ws[1] = "open" /\ inbox[1] = <<>>
        /\ logs = <<>> /\ DOMAIN last_recognized = {}

\* What the caller of a returned call holds: the response and the upload
\* (boxes and image_base64 are computed from the upload alone)
Result(c) == [response |-> calls[c].response, image |-> calls[c].image]

Returned(c) == calls[c].pc = "done" /\ calls[c].response.status = 200

\* C11: the result of every call tells whether the call did the ledger write
\* and the broadcast (newly_logged: true exactly when it passed the cooldown
\* check and inserted its log record, false when suppressed or rejected); so
\* two returned calls with equal results either both logged or both did not.
C11_NewlyLoggedIndicator ==
    \A c1, c2 \in Requests :
        (Returned(c1) /\ Returned(c2) /\ Result(c1) = Result(c2))
           => ((calls[c1].passed /\ HasLog(c1)) <=> (calls[c2].passed /\ HasLog(c2)))

\* C12: the inmate_id, name, method and score a call returns are those of the
\* decision for its query and the gallery, whatever last_recognized holds: a
\* suppressed call and a logged call with the same query and gallery return
\* the same four values.
C12_ResultIgnoresCooldown ==
    \A c \in Requests :
        Returned(c) =>
           LET d == Decide(calls[c].image, gallery)
           IN /\ calls[c].response.inmate_id = d.chosen.inmate_id
              /\ calls[c].response.name = d.chosen.name
              /\ calls[c].response.method = d.method
              /\ calls[c].response.score = d.score

\* The same upload twice: one call logged the match, the other was
\* suppressed, and both returned the same identity, method and score
C12_Witness ==
    \E c1, c2 \in Requests :
        /\ Returned(c1) /\ Returned(c2) /\ calls[c1].image = calls[c2].image
        /\ calls[c1].passed /\ HasLog(c1)
        /\ Resolved(c2) /\ ~calls[c2].passed /\ ~HasLog(c2)
        /\ calls[c1].response = calls[c2].response
        /\ calls[c1].response.inmate_id # None

\* The step in which call c runs lines 84-177 on an embedding whose length is
\* not the embedding dimension
WrongDimensionIn(c) ==
    /\ calls[c].pc = "idle" /\ calls'[c].pc # "idle"
    /\ calls'[c].image # NoFace /\ Len(calls'[c].image) # EmbeddingDim

CosHundredths == probe.best_cos.score.num
EucWithin == probe.best_euc.dist # Inf /\ probe.best_euc.dist <= 36

\* C14: choose_match returns (best_cos identity, "cosine", best_cos.score)
\* if best_cos has an identity and a score >= 0.85, also when best_euc names
\* another identity within its threshold; otherwise (best_euc identity,
\* "euclidean", 1/(1+dist)) if best_euc has an identity and dist <= 0.6;
\* otherwise no identity and method "none".  Both thresholds are inclusive.
C14_AcceptanceOrder ==
    (probe.phase = "decided" /\ probe.best_cos.score.den2 = 10000) =>
       IF probe.best_cos.inmate # NoDoc /\ CosHundredths >= 85
         THEN probe.result = [chosen |-> probe.best_cos.inmate, method |-> "cosine",
                              score |-> probe.best_cos.score]
       ELSE IF probe.best_euc.inmate # NoDoc /\ EucWithin
         THEN probe.result = [chosen |-> probe.best_euc.inmate, method |-> "euclidean",
                              score |-> distance_to_score(probe.best_euc.dist)]
       ELSE probe.result.chosen = NoDoc /\ probe.result.method = "none"

\* Cosine exactly 0.85 for one identity, accepted by the cosine rule while
\* best_euc names another identity at distance 0
C14_Witness ==
    /\ probe.phase = "decided"
    /\ probe.best_cos = [score |-> CosScore(85, 10000), inmate |-> DocA]
    /\ probe.best_euc = [dist |-> 0, inmate |-> DocB]
    /\ probe.result = [chosen |-> DocA, method |-> "cosine", score |-> CosScore(85, 10000)]

\* C15: when choose_match rejects, the identity is none, the method is
\* "none" and the score is best_cos.score if that is positive, otherwise
\* 1/(1+best_euc.dist) if best_euc.dist is finite, otherwise 0.0.
C15_RejectedDiagnosticScore ==
    (probe.phase = "decided" /\ probe.result.chosen = NoDoc) =>
       /\ probe.result.method = "none"
       /\ probe.result.score =
             IF CosHundredths > 0 THEN probe.best_cos.score
             ELSE IF probe.best_euc.dist # Inf
               THEN distance_to_score(probe.best_euc.dist)
             ELSE ZeroScore

\* A rejection with a positive cosine score below the threshold beside a
\* candidate just outside the distance threshold: the cosine score is reported
C15_Witness ==
    /\ probe.phase = "decided"
    /\ probe.best_cos = [score |-> CosScore(84, 10000), inmate |-> DocA]
    /\ probe.best_euc = [dist |-> 37, inmate |-> DocB]
    /\ probe.result = [chosen |-> NoDoc, method |-> "none", score |-> CosScore(84, 10000)]

\* The score 1.0: num/sqrt(den2) = 1, or 1/(1 + dist) with dist = 0
IsOne(x) ==
    \/ x.kind = "cos" /\ x.num > 0 /\ x.num * x.num = x.den2
    \/ x.kind = "dts" /\ x.num = 0

\* The gallery is one identity and one of its embeddings is the query
OneIdentityHoldsQuery ==
    /\ Len(probe.docs) = 1
    /\ InSeq(probe.docs[1].embeddings, probe.query)

\* C16 as stated: for every query vector, a gallery of one identity that has
\* an embedding equal to the query gives that identity, method "cosine" and
\* score 1.0.
C16_ExactMatchCosine ==
    (probe.phase = "decided" /\ OneIdentityHoldsQuery) =>
       /\ probe.result.chosen = probe.docs[1]
       /\ probe.result.method = "cosine"
       /\ IsOne(probe.result.score)

\* C16: for every query vector of nonzero norm, a gallery of one identity
\* that has an embedding equal to the query gives that identity, method
\* "cosine" and score 1.0; for the zero vector it gives that identity with
\* method "euclidean" and score 1.0.
C16_ExactMatchNonzeroCosine ==
    (probe.phase = "decided" /\ OneIdentityHoldsQuery) =>
       /\ probe.result = Decide(probe.query, probe.docs)
       /\ probe.result.chosen = probe.docs[1]
       /\ IsOne(probe.result.score)
       /\ probe.result.method =
             IF Norm2(probe.query) # 0 THEN "cosine" ELSE "euclidean"

\* The query is the second embedding of the identity, after a different
\* vector that is itself within the distance threshold
C16_Witness ==
    /\ probe.phase = "decided"
    /\ probe.query = <<6, 3>>
    /\ probe.docs = <<OneIdentity(<< <<6, 6>>, <<6, 3>> >>)>>
    /\ probe.result.method = "cosine"
    /\ probe.result.score = CosScore(45, 45 * 45)

\* The step in which call c runs lines 84-177 on a query embedding while the
\* gallery is empty
EmptyGalleryCallIn(c) ==
    /\ calls[c].pc = "idle" /\ calls'[c].pc # "idle"
    /\ gallery = <<>> /\ calls'[c].image # NoFace

\* C17: with an empty gallery every call that has a query embedding returns
\* identity none, method "none" and score 0.0, and leaves last_recognized, the
\* log collection, the registry and every observer's events unchanged,
\* whatever calls, enrolments and removals came before.
C17_EmptyGalleryRejects ==
    [][\A c \in Requests :
          EmptyGalleryCallIn(c) =>
             /\ calls'[c].pc = "done"
             /\ calls'[c].response = Response(200, NoDoc, ZeroScore, "none")
             /\ ~calls'[c].passed
             /\ UNCHANGED <<last_recognized, logs, connections, inbox>>]_vars

\* A match of inmate A was logged and delivered, both inmates were removed,
\* and the same upload was then rejected with score 0.0
C17_Witness ==
    \E c1, c2 \in Requests :
        /\ gallery = <<>>
        /\ calls[c1].pc = "done" /\ HasLog(c1) /\ calls[c1].response.inmate_id = "A"
        /\ calls[c2].pc = "done" /\ calls[c2].image = calls[c1].image
        /\ calls[c2].response = Response(200, NoDoc, ZeroScore, "none")
        /\ Len(logs) = 1 /\ DOMAIN last_recognized = {"A"}
        /\ Registered(1) /\ Len(inbox[1]) = 1

\* C18: an observer is in _connections from the step it connects, and once
\* it has disconnected (or a send to it has failed) it is eventually absent
\* from _connections, with or without a later broadcast.
C18_DisconnectUnregisters ==
    /\ [][\A o \in Observers :
            (ws[o] = "new" /\ ws'[o] = "open") => InSeq(connections', o)]_vars
    /\ \A o \in Observers : (ws[o] = "closed") ~> ~Registered(o)

\* Every broadcast that was started has finished, and there was one
BroadcastsFinished ==
    /\ \A c \in Requests : calls[c].pc # "sending"
    /\ \E c \in Requests : calls[c].pc = "done" /\ calls[c].snapshot # <<>>

\* C19: connects, disconnects and failed-send removals interleaved with a
\* broadcast suspended at a send are not lost and do not crash it: once the
\* broadcasts have finished, _connections holds exactly the observers that
\* connected and were neither disconnected nor removed for a failed send
\* (a send fails only on a disconnected socket, so these are the open ones),
\* and every broadcast ran to the end of its snapshot and its call answered.
C19_RegistryExactAfterBroadcast ==
    BroadcastsFinished =>
       /\ \A o \in Observers : Registered(o) <=> ws[o] = "open"
       /\ \A c \in Requests :
             (calls[c].pc = "done" /\ calls[c].snapshot # <<>>)
                => /\ calls[c].idx = Len(calls[c].snapshot) + 1
                   /\ calls[c].response.status = 200

\* The step in which call c's send to a closed socket raises and the socket
\* is no longer in _connections
FailedSendOfAbsentIn(c) ==
    /\ calls[c].pc = "sending" /\ calls'[c].idx = calls[c].idx + 1
    /\ ws[calls[c].snapshot[calls[c].idx]] = "closed"
    /\ ~Registered(calls[c].snapshot[calls[c].idx])

\* C20: removing an observer that is already absent raises nothing and
\* changes nothing: on every registry the program reaches, both removals (the
\* one after a failed send and the handler's clean-up) return the registry
\* itself for an absent observer and keep every other observer; a failed send
\* to an observer already removed leaves _connections as it is and the
\* broadcast goes on.
C20_RemovalOfAbsentIsSafe ==
    /\ [](\A o \in Observers :
            /\ ~Registered(o) =>
                  /\ RemoveConnection(connections, o) = connections
                  /\ HandlerCleanup(connections, o) = connections
            /\ \A p \in Observers \ {o} :
                  Registered(p) => /\ InSeq(RemoveConnection(connections, o), p)
                                   /\ InSeq(HandlerCleanup(connections, o), p))
    /\ [][\A c \in Requests :
            FailedSendOfAbsentIn(c) =>
               /\ connections' = connections
               /\ calls'[c].response.status \in {0, 200}
               /\ calls'[c].pc = IF calls[c].idx < Len(calls[c].snapshot)
                                   THEN "sending" ELSE "done"]_vars

\* Two broadcasts held the same closed socket in their snapshots: the first
\* failed send removed it, the second found it gone, and another observer is
\* still registered
C20_Witness ==
    \E c1, c2 \in Requests, o, p \in Observers :
        /\ c1 # c2 /\ o # p
        /\ \E i \in 1..(calls[c1].idx - 1) : calls[c1].snapshot[i] = o
        /\ \E i \in 1..(calls[c2].idx - 1) : calls[c2].snapshot[i] = o
        /\ ~Received(o, c1) /\ ~Received(o, c2)
        /\ ws[o] = "closed" /\ ~Registered(o)
        /\ Registered(p)

LogsOf(c) == {i \in 1..Len(logs) : logs[i].req = c}
EventsOf(o, c) == {i \in 1..Len(inbox[o]) : inbox[o][i].req = c}

\* What a call has done so far: at most one record and one event per
\* observer, the record only after the write to last_recognized, the
\* broadcast only after the record and with its inmate_id and score
OnceAndInOrder(c) ==
    /\ Cardinality(LogsOf(c)) <= 1
    /\ \A o \in Observers : Cardinality(EventsOf(o, c)) <= 1
    /\ HasLog(c) =>
          /\ calls[c].passed
          /\ calls[c].chosen.inmate_id \in DOMAIN last_recognized
    /\ (calls[c].snapshot # <<>> \/ \E o \in Observers : Received(o, c)) => HasLog(c)
    /\ \A o \in Observers : \A i \in EventsOf(o, c) :
          /\ inbox[o][i].inmate_id = logs[LogIndex(c)].inmate_id
          /\ inbox[o][i].score = logs[LogIndex(c)].score

\* A step that writes last_recognized or the log is the step of one call
\* running lines 146-177: one key written with the call's clock reading, and
\* then at most the call's own record appended
WritesBelongToOneCall ==
    (last_recognized' # last_recognized \/ logs' # logs) =>
       \E c \in Requests :
          /\ calls[c].pc = "idle" /\ calls'[c].pc # "idle" /\ calls'[c].passed
          /\ last_recognized' = [k \in DOMAIN last_recognized
                                        \cup {calls'[c].chosen.inmate_id} |->
                                   IF k = calls'[c].chosen.inmate_id
                                     THEN calls'[c].now ELSE last_recognized[k]]
          /\ \/ logs' = logs
             \/ logs' = Append(logs, LogDoc(c, calls'[c].chosen, calls'[c].score,
                                            calls'[c].now))

\* C21: one call writes last_recognized at most once, then inserts at most
\* one log record, then broadcasts at most once; an event is only sent by a
\* call whose insert succeeded and carries the inmate_id and score of that
\* record.
C21_SideEffectsOnceInOrder ==
    /\ [](\A c \in Requests : OnceAndInOrder(c))
    /\ [][WritesBelongToOneCall]_vars

\* Both calls went all the way: entry written, record inserted, event
\* delivered, and the second one 30 s after the first for the same identity
C21_Witness ==
    \E c1, c2 \in Requests :
        /\ c1 # c2 /\ SameIdentity(c1, c2)
        /\ calls[c1].pc = "done" /\ calls[c2].pc = "done"
        /\ HasLog(c1) /\ HasLog(c2) /\ Received(1, c1) /\ Received(1, c2)
        /\ Len(logs) = 2 /\ Len(inbox[1]) = 2
        /\ last_recognized[calls[c2].chosen.inmate_id] = calls[c2].now
        /\ calls[c2].now = calls[c1].now + RECOGNITION_COOLDOWN

\* The non-empty embeddings of the probe's gallery, as (identity, embedding)
\* positions, with their score and squared distance against the query
Candidates ==
    UNION {{<<i, j>> : j \in {k \in 1..Len(probe.docs[i].embeddings) :
                                 probe.docs[i].embeddings[k] # <<>>}} :
           i \in 1..Len(probe.docs)}
CosOf(p) == cosine_similarity(probe.query, probe.docs[p[1]].embeddings[p[2]])
DistOf(p) == euclidean_distance(probe.query, probe.docs[p[1]].embeddings[p[2]])

\* Positive scores x >= y and x = y as real numbers num/sqrt(den2)
PosAtLeast(x, y) == x.num * x.num * y.den2 >= y.num * y.num * x.den2
PosEqual(x, y) == x.num * x.num * y.den2 = y.num * y.num * x.den2

\* The first identity in scan order one of whose embeddings satisfies Hit
FirstIdentity(Hit(_)) ==
    probe.docs[CHOOSE i \in 1..Len(probe.docs) :
                  /\ \E p \in Candidates : p[1] = i /\ Hit(p)
                  /\ \A p \in Candidates : Hit(p) => p[1] >= i]

MinDistanceHeld ==
    IF Candidates = {} THEN probe.best_euc = InitialBest.euc
    ELSE /\ probe.best_euc.dist # Inf
         /\ \A p \in Candidates : probe.best_euc.dist <= DistOf(p)
         /\ LET Attains(p) == DistOf(p) = probe.best_euc.dist
            IN probe.best_euc.inmate = FirstIdentity(Attains)

MaxCosineHeld ==
    IF \A p \in Candidates : CosOf(p).num <= 0 THEN probe.best_cos = InitialBest.cos
    ELSE /\ probe.best_cos.score.num > 0
         /\ \A p \in Candidates :
               CosOf(p).num > 0 => PosAtLeast(probe.best_cos.score, CosOf(p))
         /\ LET Attains(p) == CosOf(p).num > 0 /\ PosEqual(CosOf(p), probe.best_cos.score)
            IN probe.best_cos.inmate = FirstIdentity(Attains)

\* C22: after the gallery loop best_euc holds the least distance over all
\* non-empty embeddings of all identities and best_cos the greatest cosine
\* score over them (when that is positive), each with the first identity in
\* scan order that attains it; the decision is choose_match on these two,
\* whatever an earlier identity had reached.
C22_GlobalBestScan ==
    /\ probe.phase \in {"scanned", "decided"} => MinDistanceHeld /\ MaxCosineHeld
    /\ probe.phase = "decided" =>
          /\ probe.result = choose_match(probe.best_cos, probe.best_euc,
                                         COSINE_THRESHOLD, EUCLIDEAN_THRESHOLD)
          /\ probe.result = Decide(probe.query, probe.docs)

\* The first identity meets the cosine threshold (0.914), the second and the
\* third hold the query itself: the second is chosen, with score 1.0
C22_Witness ==
    /\ probe.phase = "decided"
    /\ probe.query = <<10, 0>>
    /\ Len(probe.docs) = 3
    /\ probe.docs[1].embeddings = << <<9, 4>> >>
    /\ probe.docs[2].embeddings = << <<8, 6>>, <<10, 0>> >>
    /\ probe.docs[3].embeddings = << <<10, 0>> >>
    /\ probe.result.chosen = probe.docs[2]
    /\ probe.result.method = "cosine"
    /\ probe.best_euc = [dist |-> 0, inmate |-> probe.docs[2]]

\* C23: across every step no key of last_recognized is removed, the time
\* stored for a key stays or grows by at least 30 (also when a call reads an
\* earlier clock value than the one stored), and a key is written only for
\* an inmate_id that is in the gallery at that step.
C23_CooldownMapOnlyGrows ==
    [][/\ DOMAIN last_recognized \subseteq DOMAIN last_recognized'
       /\ \A k \in DOMAIN last_recognized :
             \/ last_recognized'[k] = last_recognized[k]
             \/ last_recognized'[k] >= last_recognized[k] + RECOGNITION_COOLDOWN
       /\ \A k \in DOMAIN last_recognized' :
             (k \notin DOMAIN last_recognized \/ last_recognized'[k] # last_recognized[k])
                => HasInmate(gallery, k)]_vars

\* Inmate A was logged at a clock reading, a later call for A read an earlier
\* clock value and was suppressed, A has been removed from the gallery, and
\* the entry is still the first reading
C23_Witness ==
    \E c1, c2 \in Requests :
        /\ c1 < c2 /\ SameIdentity(c1, c2)
        /\ calls[c1].pc = "done" /\ calls[c1].passed /\ calls[c1].response.status = 200
        /\ calls[c2].pc = "done" /\ Resolved(c2) /\ ~calls[c2].passed
        /\ calls[c1].now - calls[c2].now >= RECOGNITION_COOLDOWN
        /\ ~HasInmate(gallery, calls[c1].chosen.inmate_id)
        /\ last_recognized[calls[c1].chosen.inmate_id] = calls[c1].now

\* The entry of last_recognized a call for identity id reads
OwnEntry(id) == IF id \in DOMAIN last_recognized THEN last_recognized[id] ELSE 0

\* C24: the cooldown is per identity: the step in which a call resolves to
\* an identity leaves the entry of every other identity as it was, and the
\* call passes the cooldown test exactly when its clock reading is at least
\* 30 past the entry of its own identity, whatever the other entries hold.
C24_CooldownPerIdentity ==
    [][\A c \in Requests :
          ResolvesIn(c) =>
             LET id == calls'[c].chosen.inmate_id
             IN /\ DOMAIN last_recognized' \subseteq DOMAIN last_recognized \cup {id}
                /\ \A k \in DOMAIN last_recognized \ {id} :
                      k \in DOMAIN last_recognized'
                         /\ last_recognized'[k] = last_recognized[k]
                /\ calls'[c].passed
                      <=> calls'[c].now - OwnEntry(id) >= RECOGNITION_COOLDOWN]_vars

\* Two calls for different identities were both logged at clock readings
\* less than 30 apart
C24_Witness ==
    \E c1, c2 \in Requests :
        /\ c1 < c2 /\ Resolved(c1) /\ Resolved(c2) /\ ~SameIdentity(c1, c2)
        /\ HasLog(c1) /\ HasLog(c2)
        /\ ~Apart(calls[c1].now, calls[c2].now)
        /\ DOMAIN last_recognized =
              {calls[c1].chosen.inmate_id, calls[c2].chosen.inmate_id}

\* The send call c is suspended in is to observer o
SendingTo(c, o) == calls[c].pc = "sending" /\ calls[c].snapshot[calls[c].idx] = o

\* C25: broadcast_activity removes only observers whose own send raised: a
\* step takes an observer out of _connections only when it is the end of a
\* send to that observer on its closed socket, and an observer whose socket
\* is open (every send to it succeeds) is registered from its connection
\* on, whatever other observers fail and however the broadcasts interleave.
C25_OnlyFailedObserversRemoved ==
    /\ [][\A o \in Observers :
            (Registered(o) /\ ~Registered(o)')
               => /\ ws[o] = "closed"
                  /\ \E c \in Requests : SendingTo(c, o) /\ calls'[c] # calls[c]]_vars
    /\ [](\A o \in Observers : ws[o] = "open" => Registered(o))

\* Two broadcasts both went past the same failed observer, which is gone,
\* and an open observer of both snapshots got both events and is registered
C25_Witness ==
    \E c1, c2 \in Requests, o, p \in Observers :
        /\ c1 < c2 /\ o # p
        /\ calls[c1].pc = "done" /\ calls[c2].pc = "done"
        /\ InSeq(calls[c1].snapshot, o) /\ InSeq(calls[c2].snapshot, o)
        /\ ws[o] = "closed" /\ ~Registered(o) /\ inbox[o] = <<>>
        /\ ws[p] = "open" /\ Registered(p)
        /\ Received(p, c1) /\ Received(p, c2)

\* The step in which call c inserts its log record and enters
\* broadcast_activity
StartsBroadcastIn(c) == calls[c].pc = "idle" /\ HasLog(c)'

\* C26: the observers an event is sent to are fixed when the broadcast
\* starts: the snapshot is _connections as it is at that step and never
\* changes afterwards, only members of the snapshot get the event, so an
\* observer that connects while the broadcast is suspended does not get it;
\* such an observer is not removed by that broadcast, and a broadcast that
\* starts while an observer is registered has it in its snapshot and, once
\* finished, has delivered its event to that observer if its socket is open.
C26_SnapshotSemantics ==
    /\ [][\A c \in Requests :
            /\ StartsBroadcastIn(c) => calls'[c].snapshot = connections
            /\ calls[c].pc # "idle" => calls'[c].snapshot = calls[c].snapshot
            /\ \A o \in Observers :
                  (calls'[c] # calls[c] /\ ~InSeq(calls'[c].snapshot, o))
                     => /\ inbox'[o] = inbox[o]
                        /\ Registered(o) => Registered(o)']_vars
    /\ [](\A c \in Requests, o \in Observers :
            /\ Received(o, c) => InSeq(calls[c].snapshot, o)
            /\ (calls[c].pc = "done" /\ InSeq(calls[c].snapshot, o) /\ ws[o] = "open")
                  => Received(o, c))

\* An observer connected while a broadcast was suspended in a send: it is
\* not in that snapshot and has not got that event, it is registered, and it
\* has got the event of a broadcast that started later
C26_Witness ==
    \E c1, c2 \in Requests, o \in Observers :
        /\ c1 < c2
        /\ calls[c1].pc = "sending"
        /\ ~InSeq(calls[c1].snapshot, o) /\ ~Received(o, c1)
        /\ Registered(o) /\ ws[o] = "open"
        /\ InSeq(calls[c2].snapshot, o) /\ Received(o, c2)

\* C27: the two registries are separate: a socket of the stats route is
\* never in _connections nor in the snapshot of any broadcast and is never
\* sent an event of an accepted match, a socket of the activity route is
\* never in active_connections, and no step takes a socket out of one
\* registry and puts it into the other.
C27_SeparateRegistries ==
    /\ [](/\ \A s \in StatsObservers :
              /\ inbox[s] = <<>>
              /\ ~Registered(s)
              /\ \A c \in Requests : ~InSeq(calls[c].snapshot, s)
           /\ \A o \in Observers : ~InSeq(active_connections, o))
    /\ [][\A o \in Sockets :
            /\ ~(InSeq(active_connections, o) /\ InSeq(connections', o))
            /\ ~(InSeq(connections, o) /\ InSeq(active_connections', o))]_vars

\* A match was accepted and its broadcast finished while one socket of each
\* route was open and registered: the activity observer has the event, the
\* stats observer has nothing; another stats socket has come and gone
C27_Witness ==
    \E c \in Requests, o \in Observers, s, t \in StatsObservers :
        /\ calls[c].pc = "done" /\ HasLog(c)
        /\ ws[o] = "open" /\ Registered(o) /\ Received(o, c)
        /\ ws[s] = "open" /\ InSeq(active_connections, s) /\ inbox[s] = <<>>
        /\ s < t /\ ws[t] = "closed" /\ ~InSeq(active_connections, t)

====
